---------------------------- MODULE Spec2Model ----------------------------
(***************************************************************************)
(* Model of the dice-notation parser, renderer and evaluator of            *)
(* src/src/main.rs (roll, read_operand, read_u32, chomp, the Display and   *)
(* get_value implementations).                                             *)
(*                                                                         *)
(* An unsigned 32-bit integer is the pair <<hi, lo>> of its 16-bit halves, *)
(* because the values the program handles (up to 2^32 - 1) do not fit the  *)
(* checker's integers.  A signed 32-bit integer is an ordinary integer.    *)
(* Characters are one-character strings; the input is a sequence of them.  *)
(***************************************************************************)
EXTENDS Integers, Sequences, FiniteSets, TLC

\* ------------------------------------------------------------------ bounds

\* The input is the concatenation of at most MaxPieces pieces of Pieces.
MaxPieces == 4

\* The input may also be a well-formed chain with at most MaxOps operators.
MaxOps == 2

\* get_value is only run on trees that roll at most MaxRolls dice in all.
MaxRolls == 2

\* ------------------------------------------------------------- characters

DigitChars == <<"0", "1", "2", "3", "4", "5", "6", "7", "8", "9">>

IsDigit(c) == \E i \in 1..10 : DigitChars[i] = c

\* (c as u32) - ('0' as u32)
DigitVal(c) == (CHOOSE i \in 1..10 : DigitChars[i] = c) - 1

\* char::is_whitespace, on the characters of the model's alphabet
IsWhitespace(c) == c = " "

\* The pieces inputs are built from: 'd', the operators, a blank, a character
\* of no meaning, single digits, and a digit run with a value in 2^31..2^32-1.
Pieces ==
  { <<"d">>, <<"+">>, <<"-">>, <<" ">>, <<"x">>, <<"0">>, <<"1">>,
    <<"3", "0", "0", "0", "0", "0", "0", "0", "0", "0">> }

RECURSIVE Flatten(_)
Flatten(ps) == IF ps = <<>> THEN <<>> ELSE Head(ps) \o Flatten(Tail(ps))

PieceInputs ==
  { Flatten(ps) : ps \in UNION { [1..n -> Pieces] : n \in 0..MaxPieces } }

\* The operands and separators of the well-formed chains.
ChainOperands ==
  { <<"1">>, <<"1", "0">>, <<"d">>,
    <<"3", "0", "0", "0", "0", "0", "0", "0", "0", "0">> }

ChainSeparators == { <<"+">>, <<" ", "-", " ">> }

\* operand (separator operand)^n
RECURSIVE Chains(_)
Chains(n) ==
  IF n = 0 THEN ChainOperands
  ELSE { c \o sep \o x : c \in Chains(n - 1), sep \in ChainSeparators,
                          x \in ChainOperands }

ChainInputs == UNION { Chains(n) : n \in 0..MaxOps }

Inputs == PieceInputs \cup ChainInputs

\* ------------------------------------------------- 32-bit integer arithmetic

Base == 2^16

\* <<hi, lo>> with the low half brought back into 0..Base-1
Norm(hi, lo) == <<hi + (lo \div Base), lo % Base>>

U32Of(n) == Norm(0, n)

FitsU32(a) == a[1] < Base

\* the low 32 bits of a (wrapping arithmetic)
WrapU32(a) == <<a[1] % Base, a[2]>>

U32Lt(a, b) == a[1] < b[1] \/ (a[1] = b[1] /\ a[2] < b[2])

U32Le(a, b) == a = b \/ U32Lt(a, b)

U32Add(a, b) == Norm(a[1] + b[1], a[2] + b[2])

\* a - b, for b <= a
U32Sub(a, b) ==
  IF a[2] >= b[2] THEN <<a[1] - b[1], a[2] - b[2]>>
                  ELSE <<a[1] - b[1] - 1, a[2] + Base - b[2]>>

\* result * 10 + digit, exact (the caller looks at FitsU32)
MulAdd10(a, d) == Norm(a[1] * 10, a[2] * 10 + d)

\* <<a div 10, a mod 10>>
DivMod10(a) ==
  LET t == (a[1] % 10) * Base + a[2]
  IN  << <<a[1] \div 10, t \div 10>>, t % 10 >>

\* bit i (0 = least significant) of a
Bit(a, i) == IF i >= 16 THEN (a[1] \div 2^(i - 16)) % 2 ELSE (a[2] \div 2^i) % 2

\* a % b for b > 0: binary long division, from bit i down to bit 0, r being
\* the remainder of the bits above i
RECURSIVE ModFrom(_, _, _, _)
ModFrom(a, b, i, r) ==
  IF i < 0 THEN r
  ELSE LET r2 == Norm(2 * r[1], 2 * r[2] + Bit(a, i))
       IN  IF U32Le(b, r2) THEN ModFrom(a, b, i - 1, U32Sub(r2, b))
           ELSE ModFrom(a, b, i - 1, r2)

U32Mod(a, b) == ModFrom(a, b, 31, <<0, 0>>)

\* `x as i32` for a u32 x: the same 32 bits read as two's complement
AsI32(a) ==
  IF a[1] < Base \div 2 THEN a[1] * Base + a[2]
                        ELSE (a[1] - Base) * Base + a[2]

MaxI32 == AsI32(<<Base \div 2 - 1, Base - 1>>)

MinI32 == AsI32(<<Base \div 2, 0>>)

\* ----------------------------------------------------------- expressions

NoTree == [tag |-> "None"]

Scalar(v) == [tag |-> "Scalar", value |-> v]

DiceRoll(c, s) == [tag |-> "DiceRoll", count |-> c, sides |-> s]

\* Add with the operands exchanged
AddSwapped(l, r) == [tag |-> "Add", lhs |-> r, rhs |-> l]

Add(l, r) == [tag |-> "Add", lhs |-> l, rhs |-> r]

Subtract(l, r) == [tag |-> "Subtract", lhs |-> l, rhs |-> r]

IsLeaf(t) == t.tag \in {"Scalar", "DiceRoll"}

IsCompound(t) == t.tag \in {"Add", "Subtract"}

\* ---------------------------------------------------------------- Display

\* the decimal digits of a u32
RECURSIVE FmtU32(_)
FmtU32(a) ==
  LET qr == DivMod10(a)
  IN  IF qr[1] = <<0, 0>> THEN <<DigitChars[qr[2] + 1]>>
      ELSE Append(FmtU32(qr[1]), DigitChars[qr[2] + 1])

\* the decimal text of an i32: a '-' and the magnitude when negative
FmtI32(v) ==
  IF v >= 0 THEN FmtU32(Norm(0, v))
  ELSE <<"-">> \o FmtU32(U32Add(Norm(0, -(v + 1)), <<0, 1>>))

\* impl fmt::Display for Scalar
FmtScalar(t) == FmtI32(t.value)

\* impl fmt::Display for DiceRoll
FmtDiceRoll(t) ==
  IF t.count = U32Of(1) THEN <<"d">> \o FmtU32(t.sides)
  ELSE FmtU32(t.count) \o <<"d">> \o FmtU32(t.sides)

\* to_string(): impl fmt::Display for Add, Subtract, DiceRoll and Scalar
RECURSIVE Render(_)
Render(t) ==
  CASE t.tag = "Scalar" -> FmtScalar(t)
    [] t.tag = "DiceRoll" -> FmtDiceRoll(t)
    [] t.tag = "Add" -> Render(t.lhs) \o <<" ", "+", " ">> \o Render(t.rhs)
    [] t.tag = "Subtract" -> Render(t.lhs) \o <<" ", "-", " ">> \o Render(t.rhs)

\* -------------------------------------------------------------- get_value

\* The values the random source yields in the model (gen::<u32>()).
RandSamples == { <<0, 0>>, <<0, 5>>, <<45776, 24063>> }

\* how many dice get_value rolls on t, counted up to MaxRolls + 1
RECURSIVE TotalDice(_)
TotalDice(t) ==
  CASE t.tag = "Scalar" -> 0
    [] t.tag = "DiceRoll" ->
         IF t.count[1] > 0 \/ t.count[2] > MaxRolls THEN MaxRolls + 1
         ELSE t.count[2]
    [] OTHER ->
         LET n == TotalDice(t.lhs) + TotalDice(t.rhs)
         IN  IF n > MaxRolls THEN MaxRolls + 1 ELSE n

\* lhs + rhs in i32: an overflow panics or wraps, as the build has it
I32Add(l, r, checked) ==
  CASE r > 0 /\ l > MaxI32 - r ->
         IF checked THEN [status |-> "panic", value |-> 0]
         ELSE [status |-> "ok", value |-> (l + MinI32) + (r + MinI32)]
    [] r < 0 /\ l < MinI32 - r ->
         IF checked THEN [status |-> "panic", value |-> 0]
         ELSE [status |-> "ok", value |-> (l - MinI32) + (r - MinI32)]
    [] OTHER -> [status |-> "ok", value |-> l + r]

\* lhs - rhs in i32, likewise
I32Sub(l, r, checked) ==
  CASE r < 0 /\ l > MaxI32 + r ->
         IF checked THEN [status |-> "panic", value |-> 0]
         ELSE [status |-> "ok", value |-> (l + MinI32) - (r - MinI32)]
    [] r > 0 /\ l < MinI32 + r ->
         IF checked THEN [status |-> "panic", value |-> 0]
         ELSE [status |-> "ok", value |-> (l - MinI32) - (r + MinI32)]
    [] OTHER -> [status |-> "ok", value |-> l - r]

\* roll_die: (gen::<u32>() % sides) + 1, for sides > 0
RollDie(rand, sides) == U32Add(U32Mod(rand, sides), <<0, 1>>)

\* DiceRoll::get_value from its i-th roll on, with `sum` so far.  e carries the
\* evaluation: the random values not yet drawn (tape), every roll_die call
\* (rolls: <<sides, result>>) and every DiceRoll::get_value that returned
\* (dice: <<count, sides, value>>).  A remainder by zero sides panics.
RECURSIVE RollLoop(_, _, _, _, _)
RollLoop(t, i, sum, e, checked) ==
  IF i = t.count[2]
    THEN [e EXCEPT !.value = AsI32(sum),
                   !.dice = Append(@, <<t.count, t.sides, AsI32(sum)>>)]
  ELSE IF t.sides = <<0, 0>>
    THEN [e EXCEPT !.status = "panic"]
  ELSE LET r == RollDie(Head(e.tape), t.sides)
           s == U32Add(sum, r)
           e2 == [e EXCEPT !.tape = Tail(@),
                           !.rolls = Append(@, <<t.sides, r>>)]
       IN  IF FitsU32(s) THEN RollLoop(t, i + 1, s, e2, checked)
           ELSE IF checked THEN [e2 EXCEPT !.status = "panic"]
           ELSE RollLoop(t, i + 1, WrapU32(s), e2, checked)

\* get_value of Scalar, DiceRoll, Add and Subtract: lhs before rhs
RECURSIVE GetValue(_, _, _)
GetValue(t, e, checked) ==
  CASE t.tag = "Scalar" -> [e EXCEPT !.value = t.value]
    [] t.tag = "DiceRoll" -> RollLoop(t, 0, <<0, 0>>, e, checked)
    [] OTHER ->
         LET l == GetValue(t.lhs, e, checked)
         IN  IF l.status # "ok" THEN l
             ELSE LET r == GetValue(t.rhs, l, checked)
                  IN  IF r.status # "ok" THEN r
                      ELSE LET v == IF t.tag = "Add"
                                      THEN I32Add(l.value, r.value, checked)
                                      ELSE I32Sub(l.value, r.value, checked)
                           IN  [r EXCEPT !.status = v.status, !.value = v.value]

\* ------------------------------------------------------------------ state

VARIABLES
  input,        \* roll_def: the text given to roll
  pos,          \* the cursor: how many characters of input chars has yielded
  pc,           \* where roll is
  caller,       \* which call of read_operand is running: "first" or "rhs"
  result,       \* roll's `result`: the tree accumulated so far
  operator,     \* roll's `operator`: the character taken as the operator
  op_at,        \* the index in input of that character (0: none yet)
  nums_found,   \* read_u32's nums_found
  acc,          \* read_u32's result
  die_count,    \* read_operand's die_count
  outcome,      \* "none" | "Ok" | "Err" | "panic"
  message,      \* ParseError.message
  loop_pos,     \* the cursor when the operator loop last tested its condition
  steps,        \* the steps roll has taken on this input
  pass,         \* 1: the given input; 2: the rendering of its tree, parsed again
  rendered1,    \* the rendering of the tree of pass 1
  ev            \* the last get_value call on result: status, value, rolls, dice

vars == <<input, pos, pc, caller, result, operator, op_at, nums_found, acc,
          die_count, outcome, message, loop_pos, steps, pass, rendered1, ev>>

InvalidRollDefinition == "Invalid roll definition"

MissingOperand == "Missing operand"

NoChar == "none"

DefaultCount == 1

DefaultSides == 6

NoEval == [status |-> "none"]

\* a next() that consumes nothing
AdvancedNot(p) == p

\* chars.next() on a cursor at p, when a character is left: the cursor moves
\* one character on
Advanced(p) == p + 1

\* NoneError with the one message for both
NoneErrorInvalid(c) == InvalidRollDefinition

\* NoneError with the messages exchanged
NoneErrorSwapped(c) ==
  IF c = "first" THEN MissingOperand ELSE InvalidRollDefinition

\* roll's error for a None from read_operand: no first operand, or no
\* operand after an operator
NoneError(c) == IF c = "first" THEN InvalidRollDefinition ELSE MissingOperand

\* chars.peek(): the next character, or NoChar at the end of the input
Peek == IF pos < Len(input) THEN input[pos + 1] ELSE NoChar

\* The state roll starts from on the text `text`, as pass `p`.
Start(text, p, r1) ==
  /\ input = text
  /\ pos = 0
  /\ pc = "chomp1"
  /\ caller = "first"
  /\ result = NoTree
  /\ operator = NoChar
  /\ op_at = 0
  /\ nums_found = FALSE
  /\ acc = <<0, 0>>
  /\ die_count = <<0, 0>>
  /\ outcome = "none"
  /\ message = ""
  /\ loop_pos = -1
  /\ steps = 0
  /\ pass = p
  /\ rendered1 = r1
  /\ ev = NoEval

Init == \E text \in Inputs : Start(text, 1, <<>>)

\* ------------------------------------------------------------------- roll

\* return Err(ParseError { message: m })
ReturnErr(m) ==
  /\ pc' = "done"
  /\ outcome' = "Err"
  /\ message' = m
  /\ UNCHANGED result

\* return Ok(result)
ReturnOk ==
  /\ pc' = "done"
  /\ outcome' = "Ok"
  /\ UNCHANGED <<message, result>>

\* an arithmetic overflow with overflow checks compiled in
Panic ==
  /\ pc' = "done"
  /\ outcome' = "panic"
  /\ UNCHANGED <<message, result>>

\* chomp: one test of its loop condition; a blank is consumed, anything else
\* (the end of the input included) ends the loop
Chomp ==
  /\ pc \in {"chomp1", "chomp2", "chomp3"}
  /\ steps' = steps + 1
  /\ IF IsWhitespace(Peek)
       THEN /\ pos' = Advanced(pos)
            /\ UNCHANGED <<pc, caller>>
       ELSE /\ pos' = pos
            /\ pc' = CASE pc = "chomp1" -> "operand"
                       [] pc = "chomp2" -> "op"
                       [] pc = "chomp3" -> "operand"
            /\ caller' = IF pc = "chomp3" THEN "rhs" ELSE caller
  /\ UNCHANGED <<input, result, operator, op_at, nums_found, acc, die_count,
                 outcome, message, loop_pos, pass, rendered1, ev>>

\* read_operand, up to its call of read_u32(chars, 1): None unless the next
\* character is a digit or 'd'.  roll turns None into its error.
ReadOperand ==
  /\ pc = "operand"
  /\ steps' = steps + 1
  /\ IF IsDigit(Peek) \/ Peek = "d"
       THEN /\ pc' = "count"
            /\ nums_found' = FALSE
            /\ acc' = <<0, 0>>
            /\ UNCHANGED <<outcome, message, result>>
       ELSE /\ ReturnErr(NoneError(caller))
            /\ UNCHANGED <<nums_found, acc>>
  /\ UNCHANGED <<input, pos, caller, operator, op_at, die_count, loop_pos,
                 pass, rendered1, ev>>

\* Accept with any character taken for an addition
AcceptAnyOperator(x) ==
  /\ result' = IF caller = "first" THEN x
               ELSE IF operator = "-" THEN Subtract(result, x)
               ELSE Add(result, x)
  /\ pc' = "loop"
  /\ UNCHANGED <<outcome, message>>

\* What roll does with Some(x) from read_operand: the first operand becomes
\* result; a later one is combined with result according to operator.
Accept(x) ==
  IF caller = "first"
    THEN /\ result' = x
         /\ pc' = "loop"
         /\ UNCHANGED <<outcome, message>>
    ELSE CASE operator = "+" -> /\ result' = Add(result, x)
                                /\ pc' = "loop"
                                /\ UNCHANGED <<outcome, message>>
           [] operator = "-" -> /\ result' = Subtract(result, x)
                                /\ pc' = "loop"
                                /\ UNCHANGED <<outcome, message>>
           [] OTHER -> ReturnErr(InvalidRollDefinition)

\* read_u32: one test of its loop condition.  A digit is consumed into the
\* result; anything else ends the loop and the function returns, the result
\* if a digit was found and the default otherwise.  An overflowing result
\* panics or wraps, as the build has it.
ReadU32 ==
  /\ pc \in {"count", "sides"}
  /\ steps' = steps + 1
  /\ IF IsDigit(Peek)
       THEN LET r == MulAdd10(acc, DigitVal(Peek))
            IN  \/ /\ FitsU32(r)
                   /\ acc' = r
                   /\ nums_found' = TRUE
                   /\ pos' = Advanced(pos)
                   /\ UNCHANGED <<pc, die_count, result, outcome, message>>
                \/ /\ ~FitsU32(r)
                   /\ \E checked \in BOOLEAN :
                        IF checked
                          THEN /\ Panic
                               /\ UNCHANGED <<acc, nums_found, pos, die_count>>
                          ELSE /\ acc' = WrapU32(r)
                               /\ nums_found' = TRUE
                               /\ pos' = Advanced(pos)
                               /\ UNCHANGED <<pc, die_count, result, outcome,
                                              message>>
       ELSE /\ UNCHANGED <<acc, nums_found, pos>>
            /\ IF pc = "count"
                 THEN /\ die_count' = IF nums_found THEN acc
                                                    ELSE U32Of(DefaultCount)
                      /\ pc' = "d"
                      /\ UNCHANGED <<result, outcome, message>>
                 ELSE /\ Accept(DiceRoll(die_count,
                                         IF nums_found THEN acc
                                                       ELSE U32Of(DefaultSides)))
                      /\ UNCHANGED die_count
  /\ UNCHANGED <<input, caller, operator, op_at, loop_pos, pass, rendered1, ev>>

\* read_operand after die_count is read: a 'd' is consumed and the sides are
\* read next; anything else makes the operand the scalar die_count as i32.
ReadOperandD ==
  /\ pc = "d"
  /\ steps' = steps + 1
  /\ IF Peek = "d"
       THEN /\ pos' = Advanced(pos)
            /\ pc' = "sides"
            /\ nums_found' = FALSE
            /\ acc' = <<0, 0>>
            /\ UNCHANGED <<result, outcome, message>>
       ELSE /\ Accept(Scalar(AsI32(die_count)))
            /\ UNCHANGED <<pos, nums_found, acc>>
  /\ UNCHANGED <<input, caller, operator, op_at, die_count, loop_pos, pass,
                 rendered1, ev>>

\* while chars.peek().is_some(): the test of the operator loop
LoopHead ==
  /\ pc = "loop"
  /\ steps' = steps + 1
  /\ loop_pos' = pos
  /\ IF Peek # NoChar
       THEN /\ pc' = "chomp2"
            /\ UNCHANGED <<outcome, message, result>>
       ELSE ReturnOk
  /\ UNCHANGED <<input, pos, caller, operator, op_at, nums_found, acc,
                 die_count, pass, rendered1, ev>>

\* match chars.next(): the next character is taken as the operator, whatever
\* it is; at the end of the input roll returns the tree
NextOperator ==
  /\ pc = "op"
  /\ steps' = steps + 1
  /\ IF Peek # NoChar
       THEN /\ operator' = Peek
            /\ op_at' = pos + 1
            /\ pos' = Advanced(pos)
            /\ pc' = "chomp3"
            /\ UNCHANGED <<outcome, message, result>>
       ELSE /\ ReturnOk
            /\ UNCHANGED <<operator, op_at, pos>>
  /\ UNCHANGED <<input, caller, nums_found, acc, die_count, loop_pos, pass,
                 rendered1, ev>>

\* The rendering of the tree roll returned is given to roll again.
Reparse ==
  /\ pc = "done"
  /\ outcome = "Ok"
  /\ pass = 1
  /\ ev = NoEval
  /\ input' = Render(result)
  /\ rendered1' = Render(result)
  /\ pass' = 2
  /\ pos' = 0
  /\ pc' = "chomp1"
  /\ caller' = "first"
  /\ result' = NoTree
  /\ operator' = NoChar
  /\ op_at' = 0
  /\ nums_found' = FALSE
  /\ acc' = <<0, 0>>
  /\ die_count' = <<0, 0>>
  /\ outcome' = "none"
  /\ message' = ""
  /\ loop_pos' = -1
  /\ steps' = 0
  /\ ev' = NoEval

\* main's one call of result.get_value() on the tree roll returned, for some
\* values of the random source and either build
Evaluate ==
  /\ pc = "done"
  /\ outcome = "Ok"
  /\ ev = NoEval
  /\ TotalDice(result) <= MaxRolls
  /\ \E tape \in [1..TotalDice(result) -> RandSamples], checked \in BOOLEAN :
       LET e == GetValue(result,
                         [status |-> "ok", value |-> 0, tape |-> tape,
                          rolls |-> <<>>, dice |-> <<>>],
                         checked)
       IN  ev' = [status |-> e.status, value |-> e.value,
                  rolls |-> e.rolls, dice |-> e.dice]
  /\ UNCHANGED <<input, pos, pc, caller, result, operator, op_at, nums_found,
                 acc, die_count, outcome, message, loop_pos, steps, pass,
                 rendered1>>

Next ==
  \/ Chomp
  \/ ReadOperand
  \/ ReadU32
  \/ ReadOperandD
  \/ LoopHead
  \/ NextOperator
  \/ Reparse
  \/ Evaluate

Spec == Init /\ [][Next]_vars

\* ------------------------------------------------------------ the grammar
\* roll_def := ws* operand (ws* operator ws* operand)* ws*, as a language:
\* sets of positions (the index of the next unread character) a prefix of the
\* text can be matched up to.

\* the positions reached from S by reading ws*
AfterWs(s, S) ==
  { j \in 1..Len(s) + 1 :
      \E i \in S : i <= j /\ \A k \in i..j - 1 : IsWhitespace(s[k]) }

\* s[i..j-1] is an operand: digits, or [digits] 'd' [digits]
IsOperandText(s, i, j) ==
  /\ i < j
  /\ \/ \A k \in i..j - 1 : IsDigit(s[k])
     \/ \E k \in i..j - 1 :
          /\ s[k] = "d"
          /\ \A m \in i..j - 1 : m # k => IsDigit(s[m])

\* the positions reached from S by reading one operand
AfterOperand(s, S) ==
  { j \in 1..Len(s) + 1 : \E i \in S : IsOperandText(s, i, j) }

\* the positions reached from S by reading one operator
AfterOperator(s, S) ==
  { i + 1 : i \in { k \in S : k <= Len(s) /\ s[k] \in {"+", "-"} } }

\* the positions reached from S by reading (ws* operator ws* operand)*, in at
\* most n rounds
RECURSIVE AfterChain(_, _, _)
AfterChain(s, S, n) ==
  LET T == S \cup AfterOperand(s, AfterWs(s, AfterOperator(s, AfterWs(s, S))))
  IN  IF n = 0 \/ T = S THEN S ELSE AfterChain(s, T, n - 1)

MatchesGrammar(s) ==
  Len(s) + 1 \in
    AfterWs(s, AfterChain(s, AfterOperand(s, AfterWs(s, {1})), Len(s)))

\* every digit run of s, from index i on with `run` read so far, has a value
\* below 2^32
RECURSIVE RunsFitFrom(_, _, _)
RunsFitFrom(s, i, run) ==
  IF i > Len(s) THEN TRUE
  ELSE IF ~IsDigit(s[i]) THEN RunsFitFrom(s, i + 1, <<0, 0>>)
  ELSE LET r == MulAdd10(run, DigitVal(s[i]))
       IN  FitsU32(r) /\ RunsFitFrom(s, i + 1, r)

DigitRunsFit(s) == RunsFitFrom(s, 1, <<0, 0>>)

\* the index of the first character of s after index i that is not
\* whitespace; 0 if there is none
FirstNonWsAfter(s, i) ==
  LET rest == { j \in i + 1..Len(s) : ~IsWhitespace(s[j]) }
  IN  IF rest = {} THEN 0 ELSE CHOOSE j \in rest : \A k \in rest : j <= k

StartsOperand(c) == IsDigit(c) \/ c = "d"

\* s is a well-formed roll definition followed by '+' or '-' and then nothing
\* but whitespace
TrailingOperator(s) ==
  \E p \in 1..Len(s) :
    /\ s[p] \in {"+", "-"}
    /\ \A k \in p + 1..Len(s) : IsWhitespace(s[k])
    /\ MatchesGrammar(SubSeq(s, 1, p - 1))

Returned == pc = "done"

\* ----------------------------------------------------------------- claims

\* C1: on an input whose digit runs fit in 32 bits, roll returns Ok exactly
\* when the whole input matches the grammar, and a ParseError otherwise.
C1_OkIffGrammar ==
  (Returned /\ DigitRunsFit(input)) =>
    /\ outcome \in {"Ok", "Err"}
    /\ outcome = "Ok" <=> MatchesGrammar(input)

\* C1 witness: roll returned Ok on a grammatical input with blanks and an
\* operator.
C1_Witness ==
  /\ Returned
  /\ outcome = "Ok"
  /\ DigitRunsFit(input)
  /\ MatchesGrammar(input)
  /\ IsCompound(result)
  /\ \E i \in 1..Len(input) : IsWhitespace(input[i])

\* C4: the empty input, a blank input and an input whose first non-blank
\* character starts no operand fail with 'Invalid roll definition'; a
\* well-formed definition followed by '+' or '-' and only blanks fails with
\* 'Missing operand' (digit runs fitting in 32 bits).
C4_Errors ==
  Returned =>
    /\ LET i == FirstNonWsAfter(input, 0)
       IN  (i = 0 \/ ~StartsOperand(input[i])) =>
             (outcome = "Err" /\ message = InvalidRollDefinition)
    /\ (DigitRunsFit(input) /\ TrailingOperator(input)) =>
         (outcome = "Err" /\ message = MissingOperand)

\* C4 witness: roll returned on a definition with two operands and a trailing
\* operator.
C4_Witness ==
  /\ Returned
  /\ DigitRunsFit(input)
  /\ TrailingOperator(input)
  /\ IsCompound(result)
  /\ message = MissingOperand

\* the character roll took as the operator is neither '+' nor '-'
BadOperator == operator \notin {NoChar, "+", "-"}

\* an operand starts at the first non-blank character after the operator
OperandFollows ==
  LET j == FirstNonWsAfter(input, op_at)
  IN  j # 0 /\ StartsOperand(input[j])

\* C7 as stated: when the character taken as the operator is neither '+' nor
\* '-', roll fails with 'Invalid roll definition' whatever follows it.
C7_AlwaysInvalid ==
  (Returned /\ BadOperator) =>
    (outcome = "Err" /\ message = InvalidRollDefinition)

\* C7 amended: when the character taken as the operator is neither '+' nor
\* '-', roll fails: with 'Invalid roll definition' if an operand follows it
\* (after blanks), with 'Missing operand' if none does (digit runs fitting in
\* 32 bits).
C7_InvalidOrMissing ==
  (Returned /\ BadOperator /\ DigitRunsFit(input)) =>
    /\ outcome = "Err"
    /\ message = IF OperandFollows THEN InvalidRollDefinition
                                   ELSE MissingOperand

\* C7 witness: a character that is no operator was taken as one, nothing
\* that starts an operand follows, and roll returned 'Missing operand'.
C7_Witness ==
  /\ Returned
  /\ BadOperator
  /\ DigitRunsFit(input)
  /\ ~OperandFollows
  /\ message = MissingOperand

\* ------------------------------------------------------ the canonical form

\* a digit run without its leading zeros (one digit is always left)
RECURSIVE StripZeros(_)
StripZeros(run) ==
  IF Len(run) > 1 /\ Head(run) = "0" THEN StripZeros(Tail(run)) ELSE run

\* the canonical text of one operand of the input: an absent count is 1, an
\* absent sides is 6, a count of 1 is left out, numbers are in decimal
OperandCanon(tok) ==
  IF \E k \in 1..Len(tok) : tok[k] = "d"
    THEN LET k == CHOOSE k \in 1..Len(tok) : tok[k] = "d"
             cnt == SubSeq(tok, 1, k - 1)
             sds == SubSeq(tok, k + 1, Len(tok))
             c == IF cnt = <<>> THEN <<"1">> ELSE StripZeros(cnt)
             sd == IF sds = <<>> THEN <<"6">> ELSE StripZeros(sds)
         IN  IF c = <<"1">> THEN <<"d">> \o sd ELSE c \o <<"d">> \o sd
    ELSE StripZeros(tok)

\* the canonical form of s from index i on, tok being the operand read so far
RECURSIVE CanonFrom(_, _, _)
CanonFrom(s, i, tok) ==
  IF i > Len(s) THEN OperandCanon(tok)
  ELSE IF IsWhitespace(s[i]) THEN CanonFrom(s, i + 1, tok)
  ELSE IF s[i] \in {"+", "-"}
    THEN OperandCanon(tok) \o <<" ", s[i], " ">> \o CanonFrom(s, i + 1, <<>>)
  ELSE CanonFrom(s, i + 1, Append(tok, s[i]))

Canonical(s) == CanonFrom(s, 1, <<>>)

\* ------------------------------------------------------- exact arithmetic
\* An integer of any sign as <<hi, lo>> with 0 <= lo < Base: hi * Base + lo.

Exact(v) == Norm(0, v)

ExactAdd(a, b) == Norm(a[1] + b[1], a[2] + b[2])

ExactSub(a, b) == Norm(a[1] - b[1], a[2] - b[2])

\* the left-to-right fold of the scalars of s from index i on: total so far,
\* op the pending operator, cur the digit run being read
RECURSIVE FoldFrom(_, _, _, _, _)
FoldFrom(s, i, total, op, cur) ==
  LET applied == IF op = "+" THEN ExactAdd(total, cur) ELSE ExactSub(total, cur)
  IN  IF i > Len(s) THEN applied
      ELSE IF IsDigit(s[i])
        THEN FoldFrom(s, i + 1, total, op, MulAdd10(cur, DigitVal(s[i])))
      ELSE IF s[i] \in {"+", "-"}
        THEN FoldFrom(s, i + 1, applied, s[i], <<0, 0>>)
      ELSE FoldFrom(s, i + 1, total, op, cur)

ScalarFold(s) == FoldFrom(s, 1, <<0, 0>>, "+", <<0, 0>>)

AllScalars(s) == \A i \in 1..Len(s) : s[i] # "d"

\* ------------------------------------------------------------- tree shape

RECURSIVE LeftSpine(_)
LeftSpine(t) ==
  \/ IsLeaf(t)
  \/ IsCompound(t) /\ IsLeaf(t.rhs) /\ LeftSpine(t.lhs)

RECURSIVE CompoundCount(_)
CompoundCount(t) == IF IsCompound(t) THEN 1 + CompoundCount(t.lhs) ELSE 0

\* the DiceRoll nodes of t
RECURSIVE DiceNodes(_)
DiceNodes(t) ==
  CASE t.tag = "DiceRoll" -> {t}
    [] IsCompound(t) -> DiceNodes(t.lhs) \cup DiceNodes(t.rhs)
    [] OTHER -> {}

\* how many of the first n characters of s are '+' or '-'
OperatorsIn(s, n) == Cardinality({ i \in 1..n : s[i] \in {"+", "-"} })

\* ---------------------------------------------------------- claims, cont.

\* C2: for an input that parses (digit runs fitting in 32 bits), the
\* rendering of the tree is the canonical form of the input: operands in
\* order joined by " + " or " - ", a die roll as {count}d{sides} with the
\* defaults 1 and 6 and a count of 1 left out, a scalar as its decimal value.
C2_RendersCanonical ==
  (Returned /\ outcome = "Ok" /\ DigitRunsFit(input)) =>
    Render(result) = Canonical(input)

\* C3: when roll returns Ok(t), parsing the rendering of t again returns Ok
\* and a tree with the same rendering.
C3_RoundTrip ==
  (Returned /\ pass = 2) => (outcome = "Ok" /\ Render(result) = rendered1)

\* C5: every roll_die(sides) result with sides >= 1 lies in 1..sides, and
\* every DiceRoll::get_value with sides >= 1 returns a value v with
\* count <= v <= count * sides.
C5_DiceRange ==
  ev.status = "ok" =>
    /\ \A k \in 1..Len(ev.rolls) :
         LET sides == ev.rolls[k][1]
             r == ev.rolls[k][2]
         IN  sides # <<0, 0>> => (U32Le(<<0, 1>>, r) /\ U32Le(r, sides))
    /\ \A k \in 1..Len(ev.dice) :
         LET count == ev.dice[k][1]
             sides == ev.dice[k][2]
             v == ev.dice[k][3]
         IN  sides # <<0, 0>> =>
               /\ v >= 0
               /\ U32Le(count, Exact(v))
               /\ U32Le(Exact(v),
                        Norm(count[2] * sides[1], count[2] * sides[2]))

\* C6: on an input of scalars only (digit runs fitting in 32 bits) that
\* parses, get_value returns the left-to-right fold of the scalars.
C6_ScalarFold ==
  (ev.status # "none" /\ AllScalars(input) /\ DigitRunsFit(input)) =>
    (ev.status = "ok" /\ Exact(ev.value) = ScalarFold(input))

\* C8: at every step the tree is a left spine: each Add or Subtract has a
\* leaf as rhs; at the head of the operator loop and on return it has one
\* compound node per operator read; and each new compound node has the tree
\* accumulated before as its lhs.
C8_TreeShape ==
  /\ [](result # NoTree =>
          /\ LeftSpine(result)
          /\ (pc = "loop" \/ outcome = "Ok") =>
               CompoundCount(result) = OperatorsIn(input, pos))
  /\ [][(result # NoTree /\ result' # NoTree /\ result' # result) =>
          (/\ IsCompound(result')
           /\ result'.lhs = result
           /\ IsLeaf(result'.rhs))]_vars

\* C8 witness: roll returned a tree with two compound nodes.
C8_Witness ==
  /\ outcome = "Ok"
  /\ CompoundCount(result) = 2
  /\ LeftSpine(result)

\* C9: every DiceRoll node of a tree roll returns has sides >= 1.
C9_SidesPositive ==
  outcome = "Ok" => \A n \in DiceNodes(result) : n.sides # <<0, 0>>

\* the most steps roll can have taken with the cursor at p: at most four
\* tests that consume nothing come between two characters
StepBound(p) == 5 * (p + 1)

\* C10: roll terminates: the cursor stays within the input and never moves
\* back, an iteration of the loops of chomp and read_u32 consumes one
\* character, an iteration of the operator loop consumes at least one, the
\* steps taken are bounded by the characters consumed, and roll has returned
\* (Ok or Err when the digit runs fit in 32 bits) exactly when no step is
\* left.
C10_Terminates ==
  /\ [](/\ pos <= Len(input)
        /\ steps <= StepBound(pos)
        /\ pc = "loop" => pos > loop_pos
        /\ Returned <=> outcome # "none"
        /\ (Returned /\ DigitRunsFit(input)) => outcome \in {"Ok", "Err"}
        /\ ~Returned =>
             ENABLED (Chomp \/ ReadOperand \/ ReadU32 \/ ReadOperandD
                        \/ LoopHead \/ NextOperator))
  /\ [][pass' = pass =>
          /\ pos' >= pos
          /\ (pc \in {"chomp1", "chomp2", "chomp3", "count", "sides"}
                /\ pc' = pc) => pos' = pos + 1]_vars

\* C10 witness: roll returned after two rounds of the operator loop on an
\* input with blanks, the whole input consumed.
C10_Witness ==
  /\ Returned
  /\ outcome = "Ok"
  /\ pos = Len(input)
  /\ loop_pos = pos
  /\ OperatorsIn(input, pos) = 2
  /\ \E i \in 1..Len(input) : IsWhitespace(input[i])

=============================================================================
